---------------------------- MODULE Spec2Model ----------------------------
(***************************************************************************)
(* Model of generation/post_assets.py: the hashtag pipeline                *)
(* (_parse_hashtags, generate_hashtags) and the image pipeline             *)
(* (generate_post_image).                                                  *)
(*                                                                         *)
(* A Python str is a sequence of characters; a character is a one-letter   *)
(* TLA+ string, except NBSP which names U+00A0.  The modelled alphabet has *)
(* no backslash, no quote other than the double quote, no sign, no dot and *)
(* no letter e/E, so JSON escapes, floats and exponents do not occur; the  *)
(* JSON reader below is exact on that alphabet.                            *)
(***************************************************************************)
EXTENDS Integers, Sequences, FiniteSets, TLC

VARIABLES
    llm_result,     \* what generate_completion did in the last generate_hashtags call
    h_outcome,      \* "idle" | "returned" | "raised": how generate_hashtags ended
    hashtags,       \* first element of the returned tuple
    h_metadata,     \* second element of the returned tuple
    env_api_key,    \* os.environ["OPENAI_API_KEY"]
    config,         \* the config dict handed to generate_post_image
    files,          \* the temporary-file area: sequence of files in creation order
    calls,          \* generate_post_image calls made so far
    successes,      \* calls that returned a path
    img             \* the last generate_post_image call: its result and its effects

hvars == <<llm_result, h_outcome, hashtags, h_metadata>>
ivars == <<env_api_key, config, files, calls, successes, img>>
vars == <<llm_result, h_outcome, hashtags, h_metadata,
          env_api_key, config, files, calls, successes, img>>

---------------------------------------------------------------------------
(* Bounds of the model *)

MaxLen == 3        \* longest arbitrary completion text
MaxTags == 14      \* longest generated "hashtags" list
MaxCalls == 2      \* generate_post_image calls in one behaviour

---------------------------------------------------------------------------
(* Characters and Python str methods *)

NBSP == "U+00A0"

Min(a, b) == IF a < b THEN a ELSE b

\* str.isspace(): the characters str.strip() removes
PyWhitespace == {" ", "\t", "\n", "\r", NBSP}

RECURSIVE LStrip(_)
LStrip(s) == IF s # <<>> /\ Head(s) \in PyWhitespace THEN LStrip(Tail(s)) ELSE s

RECURSIVE RStrip(_)
RStrip(s) ==
    IF s # <<>> /\ s[Len(s)] \in PyWhitespace
    THEN RStrip(SubSeq(s, 1, Len(s) - 1))
    ELSE s

\* str.strip()
Strip(s) == RStrip(LStrip(s))

\* str.find(c): 0-based index of the first c, or -1
Find(s, c) ==
    IF \E i \in 1..Len(s) : s[i] = c
    THEN (CHOOSE i \in 1..Len(s) : s[i] = c /\ \A j \in 1..(i - 1) : s[j] # c) - 1
    ELSE -1

\* str.rfind(c): 0-based index of the last c, or -1
RFind(s, c) ==
    IF \E i \in 1..Len(s) : s[i] = c
    THEN (CHOOSE i \in 1..Len(s) : s[i] = c /\ \A j \in (i + 1)..Len(s) : s[j] # c) - 1
    ELSE -1

\* s[start : stop] for 0 <= start, stop <= len(s)
Slice(s, start, stop) == SubSeq(s, start + 1, stop)

\* s.startswith(c)
StartsWith(s, c) == s # <<>> /\ Head(s) = c

\* s.lstrip("#")
RECURSIVE LStripHash(_)
LStripHash(s) == IF StartsWith(s, "#") THEN LStripHash(Tail(s)) ELSE s

\* s.replace(" ", "")
RECURSIVE RemoveSpaces(_)
RemoveSpaces(s) ==
    IF s = <<>> THEN <<>>
    ELSE IF Head(s) = " " THEN RemoveSpaces(Tail(s))
    ELSE <<Head(s)>> \o RemoveSpaces(Tail(s))

\* " ".join(parts)
RECURSIVE JoinSpace(_)
JoinSpace(parts) ==
    IF parts = <<>> THEN <<>>
    ELSE IF Len(parts) = 1 THEN parts[1]
    ELSE parts[1] \o <<" ">> \o JoinSpace(Tail(parts))

---------------------------------------------------------------------------
(* json.loads on the modelled alphabet *)

JsonWhitespace == {" ", "\t", "\n", "\r"}
ControlChars == {"\t", "\n", "\r"}
Digits == {"0", "1"}

JNull == [t |-> "null", v |-> <<>>]
JStr(s) == [t |-> "str", v |-> s]
JNum(d) == [t |-> "num", v |-> d]
JArr(items) == [t |-> "arr", v |-> items]
JObj(pairs) == [t |-> "obj", v |-> pairs]

JFail == [ok |-> FALSE, val |-> JNull, end |-> 0]
JOk(value, e) == [ok |-> TRUE, val |-> value, end |-> e]

\* s[i:i+1] with 1-based i; "" past the end
At(s, i) == IF i >= 1 /\ i <= Len(s) THEN s[i] ELSE ""

HasPrefixAt(s, i, w) ==
    /\ i + Len(w) - 1 <= Len(s)
    /\ \A k \in 1..Len(w) : s[i + k - 1] = w[k]

\* WHITESPACE.match(s, i).end()
RECURSIVE SkipWs(_, _)
SkipWs(s, i) == IF At(s, i) \in JsonWhitespace THEN SkipWs(s, i + 1) ELSE i

\* scanstring(s, i, strict=True), i just after the opening quote
ScanString(s, i) ==
    LET stops == {j \in i..Len(s) : s[j] = "\"" \/ s[j] \in ControlChars}
    IN  IF stops = {} THEN JFail
        ELSE LET j == CHOOSE x \in stops : \A y \in stops : x <= y
             IN  IF s[j] = "\"" THEN JOk(JStr(SubSeq(s, i, j - 1)), j + 1) ELSE JFail

\* NUMBER_RE.match(s, i): (0|[1-9][0-9]*), no fraction or exponent in the alphabet
RECURSIVE DigitsEnd(_, _)
DigitsEnd(s, i) == IF At(s, i) \in Digits THEN DigitsEnd(s, i + 1) ELSE i

MatchNumber(s, i) ==
    LET e == IF s[i] = "0" THEN i + 1 ELSE DigitsEnd(s, i)
    IN  JOk(JNum(SubSeq(s, i, e - 1)), e)

RECURSIVE ScanOnce(_, _), ArrayItems(_, _, _), ObjectPairs(_, _, _)

\* JSONArray, i just after "["
JSONArray(s, i) ==
    LET j == SkipWs(s, i)
    IN  IF At(s, j) = "]" THEN JOk(JArr(<<>>), j + 1) ELSE ArrayItems(s, j, <<>>)

\* JSONObject, i just after "{"
JSONObject(s, i) ==
    LET j == SkipWs(s, i)
    IN  IF At(s, j) = "}" THEN JOk(JObj(<<>>), j + 1)
        ELSE IF At(s, j) = "\"" THEN ObjectPairs(s, j + 1, <<>>)
        ELSE JFail

\* scan_once(s, i)
ScanOnce(s, i) ==
    LET c == At(s, i)
    IN  IF c = "" THEN JFail
        ELSE IF c = "\"" THEN ScanString(s, i + 1)
        ELSE IF c = "{" THEN JSONObject(s, i + 1)
        ELSE IF c = "[" THEN JSONArray(s, i + 1)
        ELSE IF HasPrefixAt(s, i, <<"n", "u", "l", "l">>) THEN JOk(JNull, i + 4)
        ELSE IF c \in Digits THEN MatchNumber(s, i)
        ELSE JFail

ArrayItems(s, i, acc) ==
    LET r == ScanOnce(s, i)
    IN  IF ~r.ok THEN JFail
        ELSE LET k == SkipWs(s, r.end)
                 items == Append(acc, r.val)
             IN  IF At(s, k) = "]" THEN JOk(JArr(items), k + 1)
                 ELSE IF At(s, k) = "," THEN ArrayItems(s, SkipWs(s, k + 1), items)
                 ELSE JFail

\* i just after the opening quote of a key
ObjectPairs(s, i, acc) ==
    LET key == ScanString(s, i)
    IN  IF ~key.ok THEN JFail
        ELSE LET c == SkipWs(s, key.end)
             IN  IF At(s, c) # ":" THEN JFail
                 ELSE LET r == ScanOnce(s, SkipWs(s, c + 1))
                      IN  IF ~r.ok THEN JFail
                          ELSE LET k == SkipWs(s, r.end)
                                   pairs == Append(acc, [k |-> key.val.v, val |-> r.val])
                               IN  IF At(s, k) = "}" THEN JOk(JObj(pairs), k + 1)
                                   ELSE IF At(s, k) = ","
                                   THEN LET n == SkipWs(s, k + 1)
                                        IN  IF At(s, n) = "\""
                                            THEN ObjectPairs(s, n + 1, pairs)
                                            ELSE JFail
                                   ELSE JFail

\* json.loads(s): ok is FALSE where it raises JSONDecodeError
JsonLoads(s) ==
    LET r == ScanOnce(s, SkipWs(s, 1))
    IN  IF r.ok /\ SkipWs(s, r.end) = Len(s) + 1 THEN r ELSE JFail

\* dict.get(key, default) on the pairs of a parsed object (the last duplicate wins)
DictGet(pairs, key, default) ==
    LET hits == {i \in 1..Len(pairs) : pairs[i].k = key}
    IN  IF hits = {} THEN default
        ELSE pairs[CHOOSE i \in hits : \A j \in hits : j <= i].val

\* repr() of a character inside a str
ReprChar(c) == IF c = NBSP THEN <<"\\", "x", "a", "0">> ELSE <<c>>

RECURSIVE ReprChars(_)
ReprChars(s) == IF s = <<>> THEN <<>> ELSE ReprChar(Head(s)) \o ReprChars(Tail(s))

RECURSIVE Repr(_), ReprItems(_), ReprPairs(_)

\* repr(value) of a parsed JSON value
Repr(value) ==
    IF value.t = "str" THEN <<"'">> \o ReprChars(value.v) \o <<"'">>
    ELSE IF value.t = "num" THEN value.v
    ELSE IF value.t = "null" THEN <<"N", "o", "n", "e">>
    ELSE IF value.t = "arr" THEN <<"[">> \o ReprItems(value.v) \o <<"]">>
    ELSE <<"{">> \o ReprPairs(value.v) \o <<"}">>

ReprItems(items) ==
    IF items = <<>> THEN <<>>
    ELSE IF Len(items) = 1 THEN Repr(items[1])
    ELSE Repr(items[1]) \o <<",", " ">> \o ReprItems(Tail(items))

\* the pairs a dict keeps: for a repeated key the first position, the last value
DictItems(pairs) ==
    LET firsts == {i \in 1..Len(pairs) : \A j \in 1..(i - 1) : pairs[j].k # pairs[i].k}
        F[n \in 0..Len(pairs)] ==
            IF n = 0 THEN <<>>
            ELSE IF n \in firsts
                 THEN Append(F[n - 1], [k |-> pairs[n].k,
                                        val |-> DictGet(pairs, pairs[n].k, JNull)])
                 ELSE F[n - 1]
    IN  F[Len(pairs)]

ReprPairs(pairs) ==
    LET items == DictItems(pairs)
        R[n \in 0..Len(items)] ==
            IF n = 0 THEN <<>>
            ELSE (IF n = 1 THEN <<>> ELSE R[n - 1] \o <<",", " ">>)
                 \o Repr(JStr(items[n].k)) \o <<":", " ">> \o Repr(items[n].val)
    IN  R[Len(items)]

\* str(value) of a parsed JSON value
PyStr(value) == IF value.t = "str" THEN value.v ELSE Repr(value)

---------------------------------------------------------------------------
(* _parse_hashtags *)

HashtagsKey == <<"h", "a", "s", "h", "t", "a", "g", "s">>
MaxHashtags == 10

Returned(s) == [raised |-> FALSE, exc |-> "", value |-> s]
Raised(e) == [raised |-> TRUE, exc |-> e, value |-> <<>>]

\* line 27: (raw_text or "").strip(); raw is [none |-> BOOLEAN, s |-> chars]
Trimmed(raw) == IF raw.none THEN <<>> ELSE Strip(raw.s)

\* the slice one character short: text[start : end]
RecoveredShort(text, start, end) == Slice(text, start, end)

\* line 38: text[start : end + 1]
Recovered(text, start, end) == Slice(text, start, end + 1)

\* lines 30-40: the payload, or the text to return when nothing parses
LoadPayload(text) ==
    LET whole == JsonLoads(text)
        start == Find(text, "{")
        end == RFind(text, "}")
    IN  IF whole.ok THEN [parsed |-> TRUE, payload |-> whole.val]
        ELSE IF start = -1 \/ end = -1 \/ end <= start
             THEN [parsed |-> FALSE, payload |-> JNull]
        ELSE LET part == JsonLoads(Recovered(text, start, end))
             IN  IF part.ok THEN [parsed |-> TRUE, payload |-> part.val]
                 ELSE [parsed |-> FALSE, payload |-> JNull]

\* lines 47-52: one tag of the list; <<>> where the loop hits continue
CleanTag(tag) ==
    LET tag_text == Strip(PyStr(tag))
    IN  IF tag_text = <<>> THEN <<>>
        ELSE IF ~StartsWith(tag_text, "#")
             THEN RemoveSpaces(<<"#">> \o LStripHash(tag_text))
        ELSE RemoveSpaces(tag_text)

\* lines 45-52: the cleaned list
RECURSIVE Cleaned(_)
Cleaned(tags) ==
    IF tags = <<>> THEN <<>>
    ELSE LET c == CleanTag(Head(tags))
         IN  IF c = <<>> THEN Cleaned(Tail(tags)) ELSE <<c>> \o Cleaned(Tail(tags))

\* no truncation: cleaned[:]
TruncatedAll(cleaned) == cleaned

\* line 53: cleaned[:10]
Truncated(cleaned) == SubSeq(cleaned, 1, Min(Len(cleaned), MaxHashtags))

\* lines 42-53
TagsOf(payload) ==
    IF payload.t # "obj" THEN Raised("AttributeError")
    ELSE LET tags == DictGet(payload.v, HashtagsKey, JArr(<<>>))
         IN  IF tags.t # "arr" THEN Returned(<<>>)
             ELSE Returned(JoinSpace(Truncated(Cleaned(tags.v))))

\* the fallback returning raw_text instead of text
FallbackRaw(raw, text) == raw.s

\* line 36 and line 40: what the fallback returns
Fallback(raw, text) == text

ParseHashtags(raw) ==
    LET text == Trimmed(raw)
    IN  IF text = <<>> THEN Returned(<<>>)
        ELSE LET p == LoadPayload(text)
             IN  IF p.parsed THEN TagsOf(p.payload) ELSE Returned(Fallback(raw, text))


---------------------------------------------------------------------------
(* Completion results handed to generate_hashtags *)

Seqs(S, n) == UNION {[1..k -> S] : k \in 0..n}

\* json text of a value, compact separators
RECURSIVE Encode(_), EncodeItems(_), EncodePairs(_)
Encode(value) ==
    IF value.t = "str" THEN <<"\"">> \o value.v \o <<"\"">>
    ELSE IF value.t = "num" THEN value.v
    ELSE IF value.t = "null" THEN <<"n", "u", "l", "l">>
    ELSE IF value.t = "arr" THEN <<"[">> \o EncodeItems(value.v) \o <<"]">>
    ELSE <<"{">> \o EncodePairs(value.v) \o <<"}">>

EncodeItems(items) ==
    IF items = <<>> THEN <<>>
    ELSE IF Len(items) = 1 THEN Encode(items[1])
    ELSE Encode(items[1]) \o <<",">> \o EncodeItems(Tail(items))

EncodePairs(pairs) ==
    IF pairs = <<>> THEN <<>>
    ELSE Encode(JStr(pairs[1].k)) \o <<":">> \o Encode(pairs[1].val)
         \o (IF Len(pairs) = 1 THEN <<>> ELSE <<",">> \o EncodePairs(Tail(pairs)))

\* completion texts of any shape, up to MaxLen characters
ArbitraryChars == {"{", "}", "[", "]", "\"", ":", ",", "1", " ", "x"}
ArbitraryTexts == Seqs(ArbitraryChars, MaxLen)

\* elements a model may put in the "hashtags" list
TagElements ==
    { JStr(<<"A", "I">>), JStr(<<"#", "S", "M", "E">>),
      JStr(<<"#", "#", "g", "r", "o", "w", "t", "h">>),
      JStr(<<>>), JStr(<<" ">>), JStr(<<"a", " ", "b">>),
      JStr(<<"a", NBSP, "b">>), JStr(<<" ", "#", " ", "c">>),
      JNum(<<"1">>), JNull, JArr(<<JStr(<<"a">>)>>) }

TagPatterns ==
    { <<JStr(<<"a">>)>>,
      <<JStr(<<"#", "a">>), JStr(<<>>), JStr(<<"b", " ", "c">>)>>,
      <<JStr(<<"#", "#", "a">>), JStr(<<"a">>), JNum(<<"1", "0">>), JStr(<<NBSP>>)>> }

\* the list of n elements that repeats pattern p
Cycle(p, n) == [i \in 1..n |-> p[((i - 1) % Len(p)) + 1]]

TagLists == Seqs(TagElements, 2) \cup {Cycle(p, n) : p \in TagPatterns, n \in 3..MaxTags}

FieldValues ==
    {JArr(l) : l \in TagLists}
        \cup {JStr(<<"#", "a">>), JNum(<<"1">>), JNull, JObj(<<>>)}

FieldKeys == {HashtagsKey, <<"t", "a", "g", "s">>}

SchemaObjects == {JObj(<<[k |-> key, val |-> v]>>) : key \in FieldKeys, v \in FieldValues}

OtherValues ==
    { JObj(<<>>),
      JObj(<<[k |-> HashtagsKey, val |-> JArr(<<JStr(<<"a">>)>>)],
             [k |-> HashtagsKey, val |-> JArr(<<JStr(<<"b">>)>>)]>>),
      JArr(<<>>), JArr(<<JStr(<<"#", "a">>)>>), JArr(<<JObj(<<>>)>>),
      JNum(<<"1", "1">>), JStr(<<"#", "a">>), JStr(<<"{", "}">>), JNull }

Prefixes == {<<>>, <<" ">>, <<"H", "i", "!", " ">>, <<"{", " ">>, <<NBSP>>}
Suffixes == {<<>>, <<"\n">>, <<" ", "T", "h", "x">>, <<"}">>, <<"\t", "]">>}

EmbeddedTexts ==
    {pre \o Encode(v) \o post :
        pre \in Prefixes, v \in SchemaObjects \cup OtherValues, post \in Suffixes}

\* json text with whitespace wherever the grammar allows it
SpacedTexts ==
    { <<"{", " ", "\"">> \o HashtagsKey
          \o <<"\"", " ", ":", "\t", "[", " ", "\"", "a", "\"", " ", ",", "\n",
               "\"", "#", "b", "\"", " ", "]", " ", "}">>,
      <<"S", "u", "r", "!", " ", "{", "\"">> \o HashtagsKey
          \o <<"\"", ":", "[", "\"", "A", "I", "\"", ",", "\"", "#", "S", "M", "E",
               "\"", "]", "}", " ", "T", "h", "a", "n", "k", "s">>,
      <<"{", "\"">> \o HashtagsKey \o <<"\"", ":", "[", "\"", "a", "\"", ",", "]", "}">>,
      <<"{", "\"">> \o HashtagsKey \o <<"\"", ":", "[", "0", "1", "]", "}">>,
      <<"{", "\"">> \o HashtagsKey \o <<"\"", ":", "[", "\"", "a", "\t", "\"", "]", "}">> }

ContentTexts == ArbitraryTexts \cup EmbeddedTexts \cup SpacedTexts

\* a dict value the model does not look into
Absent == "<absent>"
PyNone == "None"

\* the fields of CompletionResult other than content
LlmFields ==
    { [model |-> "gpt-4o-mini", attempts |-> "1", usage |-> "{total_tokens: 7}",
       length |-> "{chars: 9}", estimated_cost_usd |-> "0.0031", error |-> PyNone],
      [model |-> "gpt-4o", attempts |-> "3", usage |-> "{}",
       length |-> "{}", estimated_cost_usd |-> "0.0", error |-> "rate limited"],
      [model |-> Absent, attempts |-> Absent, usage |-> Absent,
       length |-> Absent, estimated_cost_usd |-> Absent, error |-> Absent] }

\* content: a str, None, or no such key
Contents ==
    {[kind |-> "str", s |-> s] : s \in ContentTexts}
        \cup {[kind |-> "none", s |-> <<>>], [kind |-> "absent", s |-> <<>>]}

NoContent == [kind |-> "absent", s |-> <<>>]
NoFields == CHOOSE f \in LlmFields : f.model = Absent

\* what generate_completion does: returns a dict, or raises
CompletionOutcomes ==
    {[raised |-> FALSE, content |-> c, fields |-> f] : c \in Contents, f \in LlmFields}
        \cup {[raised |-> TRUE, content |-> NoContent, fields |-> NoFields]}

---------------------------------------------------------------------------
(* generate_hashtags *)

\* dict.get(key, default)
Get(value, default) == IF value = Absent THEN default ELSE value

\* line 68: llm_result.get("content", "") as the raw_text argument
RawText(content) == [none |-> content.kind = "none", s |-> content.s]

\* lines 69-78
Metadata(fields) ==
    [model |-> Get(fields.model, PyNone),
     attempts |-> Get(fields.attempts, PyNone),
     usage |-> Get(fields.usage, "{}"),
     length |-> Get(fields.length, "{}"),
     estimated_cost_usd |-> Get(fields.estimated_cost_usd, "0.0"),
     error |-> Get(fields.error, PyNone)]

NoMetadata == [present |-> FALSE, llm |-> Metadata(NoFields)]

GenerateHashtags ==
    /\ h_outcome = "idle"
    /\ UNCHANGED llm_result
    /\ IF llm_result.raised
       THEN /\ h_outcome' = "raised"
            /\ hashtags' = <<>>
            /\ h_metadata' = NoMetadata
       ELSE LET parsed == ParseHashtags(RawText(llm_result.content))
            IN  IF parsed.raised
                THEN /\ h_outcome' = "raised"
                     /\ hashtags' = <<>>
                     /\ h_metadata' = NoMetadata
                ELSE /\ h_outcome' = "returned"
                     /\ hashtags' = parsed.value
                     /\ h_metadata' = [present |-> TRUE, llm |-> Metadata(llm_result.fields)]
    /\ UNCHANGED ivars

\* before the call: the completion client's behaviour is fixed, nothing is returned yet
HashtagsInit ==
    /\ llm_result \in CompletionOutcomes
    /\ h_outcome = "idle"
    /\ hashtags = <<>>
    /\ h_metadata = NoMetadata

---------------------------------------------------------------------------
(* base64.b64decode(s) with validate=False, as binascii.a2b_base64 reads it *)

NonAscii == "U+00E9"

\* the base64 alphabet's values for the characters the model uses
B64Index == [c \in {"A", "Q", "g", "w", "/"} |->
                IF c = "A" THEN 0 ELSE IF c = "Q" THEN 16 ELSE IF c = "g" THEN 32
                ELSE IF c = "w" THEN 48 ELSE 63]

B64Start == [quad |-> 0, left |-> 0, pads |-> 0, out |-> <<>>, done |-> FALSE]

\* one character of the input
B64Step(st, c) ==
    IF st.done THEN st
    ELSE IF c = "="
         THEN IF st.quad >= 2
              THEN [st EXCEPT !.pads = @ + 1, !.done = (st.quad + st.pads + 1 >= 4)]
              ELSE st
    ELSE IF c \notin DOMAIN B64Index THEN st
    ELSE LET v == B64Index[c]
         IN  IF st.quad = 0
             THEN [st EXCEPT !.quad = 1, !.left = v, !.pads = 0]
             ELSE IF st.quad = 1
             THEN [st EXCEPT !.quad = 2, !.pads = 0, !.left = v % 16,
                             !.out = Append(@, (st.left * 4 + v \div 16) % 256)]
             ELSE IF st.quad = 2
             THEN [st EXCEPT !.quad = 3, !.pads = 0, !.left = v % 4,
                             !.out = Append(@, (st.left * 16 + v \div 4) % 256)]
             ELSE [st EXCEPT !.quad = 0, !.pads = 0, !.left = 0,
                             !.out = Append(@, (st.left * 64 + v) % 256)]

RECURSIVE B64Fold(_, _)
B64Fold(st, s) == IF s = <<>> THEN st ELSE B64Fold(B64Step(st, Head(s)), Tail(s))

\* ok is FALSE where b64decode raises; error is str(exc)
B64Decode(s) ==
    IF \E i \in 1..Len(s) : s[i] = NonAscii
    THEN [ok |-> FALSE, bytes |-> <<>>,
          error |-> "string argument should contain only ASCII characters"]
    ELSE LET st == B64Fold(B64Start, s)
         IN  IF st.done \/ st.quad = 0 THEN [ok |-> TRUE, bytes |-> st.out, error |-> ""]
             ELSE IF st.quad = 1
                  THEN [ok |-> FALSE, bytes |-> <<>>,
                        error |-> "Invalid base64-encoded string"]
             ELSE [ok |-> FALSE, bytes |-> <<>>, error |-> "Incorrect padding"]

---------------------------------------------------------------------------
(* Inputs of generate_post_image *)

\* config["timeout"]: no such key, an int, a str or None
Timeouts ==
    { [kind |-> "absent", s |-> <<>>], [kind |-> "int", s |-> <<"3", "0">>],
      [kind |-> "str", s |-> <<" ", "3", "0">>], [kind |-> "str", s |-> <<"a", "b", "c">>],
      [kind |-> "none", s |-> <<>>] }

ApiKeys == {Absent, "", "sk-config"}
EnvKeys == {Absent, "", "sk-env"}

Configs ==
    { c \in [api_key : ApiKeys, timeout : Timeouts,
             image_model : {Absent, "dall-e-3"}, image_size : {Absent, "512x512"}] :
        c.image_model = Absent \/ c.image_size # Absent }

\* b64_json strings: padded and unpadded, with characters outside the alphabet,
\* with data after the padding, and with too few characters
B64Payloads ==
    { <<"=">>, <<"Q">>, <<"Q", "Q">>, <<"Q", "Q", "=">>, <<"Q", "Q", "=", "=">>,
      <<"Q", "Q", "Q", "=">>, <<"Q", "Q", "Q", "Q">>, <<"Q", "Q", "=", "Q">>,
      <<"Q", "Q", "=", "=", "Q", "Q">>, <<"Q", "!", "Q", "=", "=">>,
      <<"A", "/", "g", "w">>, <<"Q", "Q", NonAscii, "=">> }

\* what client.images.generate does: raises, returns no item, or returns an item
\* whose b64_json is missing, None, "" or a payload
ClientBehaviours ==
    { [kind |-> "raise", text |-> "Connection error.", b64 |-> <<>>],
      [kind |-> "raise", text |-> "", b64 |-> <<>>],
      [kind |-> "no_item", text |-> "list index out of range", b64 |-> <<>>],
      [kind |-> "item_absent", text |-> "", b64 |-> <<>>],
      [kind |-> "item_none", text |-> "", b64 |-> <<>>],
      [kind |-> "item", text |-> "", b64 |-> <<>>] }
        \cup {[kind |-> "item", text |-> "", b64 |-> s] : s \in B64Payloads}

\* what the file system does to NamedTemporaryFile, write and close
\* (a write of no bytes has nothing to fail on)
FsBehaviours(bytes) ==
    {"ok", "create_fails", "close_fails"}
        \cup (IF bytes = <<>> THEN {} ELSE {"write_fails"})

NotReached == [kind |-> "not_reached", text |-> "", b64 |-> <<>>]

---------------------------------------------------------------------------
(* generate_post_image *)

DefaultImageModel == "gpt-image-1"
DefaultImageSize == "1024x1024"

\* delete=True: the file is removed when the with block closes it
TempFileDeleteOnClose == TRUE

\* line 120: delete=False
TempFileDelete == FALSE

\* Python truth value of a str-or-None
Falsy(value) == value \in {Absent, PyNone, ""}

\* line 83: config.get("api_key") or os.getenv("OPENAI_API_KEY")
ResolveApiKey(cfg, env) == IF ~Falsy(cfg.api_key) THEN cfg.api_key ELSE env

\* the check as "api_key is None"
KeyMissingNone(api_key) == api_key \in {Absent, PyNone}

\* line 84: not api_key
KeyMissing(api_key) == Falsy(api_key)

DecimalDigits == {"0", "1", "2", "3", "4", "5", "6", "7", "8", "9"}

\* line 89: float(config.get("timeout", 60)); error is the exception raised, "" if none
Float(timeout) ==
    IF timeout.kind \in {"absent", "int"} THEN ""
    ELSE IF timeout.kind = "none" THEN "TypeError"
    ELSE LET digits == Strip(timeout.s)
         IN  IF digits # <<>> /\ \A i \in 1..Len(digits) : digits[i] \in DecimalDigits
             THEN ""
             ELSE "ValueError"

\* lines 120-122: the file the with block leaves behind, <<>> if none
\* (a failed write may have written any part of the bytes)
LeftFiles(path, bytes, fs) ==
    IF fs = "create_fails" \/ TempFileDelete THEN {<<>>}
    ELSE IF fs = "write_fails"
         THEN {<<[path |-> path, bytes |-> SubSeq(bytes, 1, n), closed |-> TRUE]>> :
                  n \in 0..(Len(bytes) - 1)}
    ELSE {<<[path |-> path, bytes |-> bytes, closed |-> TRUE]>>}

FsError(fs) ==
    IF fs = "create_fails" THEN "[Errno 13] Permission denied"
    ELSE IF fs = "write_fails" THEN "[Errno 28] No space left on device"
    ELSE "[Errno 5] Input/output error"

NoMeta == [error |-> Absent, model |-> Absent, size |-> Absent, path |-> 0]

\* the tuple returned, with what the call did on the way
ImageReturn(path, meta, constructed, b, fs) ==
    [outcome |-> "returned", path |-> path, meta |-> meta, exc |-> "",
     constructed |-> constructed, client |-> b, fs |-> fs]

ImageRaise(exc) ==
    [outcome |-> "raised", path |-> 0, meta |-> NoMeta, exc |-> exc,
     constructed |-> FALSE, client |-> NotReached, fs |-> "not_reached"]

\* lines 125-126
ImageError(text, model, size, b, fs) ==
    ImageReturn(0, [error |-> text, model |-> model, size |-> size, path |-> 0],
                TRUE, b, fs)

GeneratePostImage ==
    /\ calls < MaxCalls
    /\ calls' = calls + 1
    /\ UNCHANGED <<env_api_key, config>>
    /\ UNCHANGED hvars
    /\ LET api_key == ResolveApiKey(config, env_api_key)
           image_model == Get(config.image_model, DefaultImageModel)
           image_size == Get(config.image_size, DefaultImageSize)
           path == calls + 1
       IN  IF KeyMissing(api_key)
           THEN /\ img' = ImageReturn(0, [NoMeta EXCEPT !.error = "OPENAI_API_KEY not set"],
                                      FALSE, NotReached, "not_reached")
                /\ UNCHANGED <<files, successes>>
           ELSE IF Float(config.timeout) # ""
           THEN /\ img' = ImageRaise(Float(config.timeout))
                /\ UNCHANGED <<files, successes>>
           ELSE \E b \in ClientBehaviours :
                  IF b.kind \in {"raise", "no_item"}
                  THEN /\ img' = ImageError(b.text, image_model, image_size, b, "not_reached")
                       /\ UNCHANGED <<files, successes>>
                  ELSE IF b.b64 = <<>>
                  THEN /\ img' = ImageReturn(0, [NoMeta EXCEPT
                                                    !.error = "Image response missing b64_json",
                                                    !.model = image_model],
                                             TRUE, b, "not_reached")
                       /\ UNCHANGED <<files, successes>>
                  ELSE LET decoded == B64Decode(b.b64)
                       IN  IF ~decoded.ok
                           THEN /\ img' = ImageError(decoded.error, image_model, image_size,
                                                     b, "not_reached")
                                /\ UNCHANGED <<files, successes>>
                           ELSE \E fs \in FsBehaviours(decoded.bytes) :
                                \E left \in LeftFiles(path, decoded.bytes, fs) :
                                  /\ files' = files \o left
                                  /\ IF fs = "ok"
                                     THEN /\ img' = ImageReturn(path,
                                                       [error |-> Absent, model |-> image_model,
                                                        size |-> image_size, path |-> path],
                                                       TRUE, b, fs)
                                          /\ successes' = successes + 1
                                     ELSE /\ img' = ImageError(FsError(fs), image_model,
                                                               image_size, b, fs)
                                          /\ UNCHANGED successes

ImageIdle ==
    /\ files = <<>>
    /\ calls = 0
    /\ successes = 0
    /\ img = [outcome |-> "idle", path |-> 0, meta |-> NoMeta, exc |-> "",
              constructed |-> FALSE, client |-> NotReached, fs |-> "not_reached"]

\* no generate_hashtags call is pending
HashtagsIdle ==
    /\ llm_result = [raised |-> TRUE, content |-> NoContent, fields |-> NoFields]
    /\ h_outcome = "done"
    /\ hashtags = <<>>
    /\ h_metadata = NoMetadata

---------------------------------------------------------------------------
(* The two pipelines share no state: one specification each *)

Init ==
    /\ HashtagsInit
    /\ ImageIdle
    /\ env_api_key = Absent
    /\ config = CHOOSE c \in Configs : c.api_key = Absent /\ c.timeout.kind = "absent"

Next == GenerateHashtags

Spec == Init /\ [][Next]_vars

ImageInit ==
    /\ HashtagsIdle
    /\ ImageIdle
    /\ env_api_key \in EnvKeys
    /\ config \in Configs

ImageNext == GeneratePostImage

SpecImage == ImageInit /\ [][ImageNext]_vars

---------------------------------------------------------------------------
(* Properties of the hashtag pipeline, checked under Spec *)

HashtagsCalled == h_outcome \in {"returned", "raised"}

\* the completion client returned a dict whose content is a str
ContentIsStr == ~llm_result.raised /\ llm_result.content.kind = "str"

ContentText == Strip(llm_result.content.s)

\* s.split(" "), with no token for the empty string
RECURSIVE SplitFrom(_, _)
SplitFrom(s, cur) ==
    IF s = <<>> THEN <<cur>>
    ELSE IF Head(s) = " " THEN <<cur>> \o SplitFrom(Tail(s), <<>>)
    ELSE SplitFrom(Tail(s), Append(cur, Head(s)))

Tokens(s) == IF s = <<>> THEN <<>> ELSE SplitFrom(s, <<>>)

HasKey(pairs, key) == \E i \in 1..Len(pairs) : pairs[i].k = key

\* the text as a whole is the schema object: an object whose "hashtags" is a list
IsSchemaObject(value) ==
    /\ value.t = "obj"
    /\ HasKey(value.v, HashtagsKey)
    /\ DictGet(value.v, HashtagsKey, JNull).t = "arr"

WholeIsSchema ==
    /\ ContentIsStr
    /\ JsonLoads(ContentText).ok
    /\ IsSchemaObject(JsonLoads(ContentText).val)

SchemaList == DictGet(JsonLoads(ContentText).val.v, HashtagsKey, JNull).v

\* the elements whose text is not blank
RECURSIVE NonBlank(_)
NonBlank(list) ==
    IF list = <<>> THEN <<>>
    ELSE IF Strip(PyStr(Head(list))) = <<>> THEN NonBlank(Tail(list))
    ELSE <<Head(list)>> \o NonBlank(Tail(list))

\* a tag without its spaces and leading hashes
Core(s) == LStripHash(RemoveSpaces(s))

HasWhitespace(s) == \E i \in 1..Len(s) : s[i] \in PyWhitespace

ExactlyOneHash(s) == StartsWith(s, "#") /\ (Len(s) < 2 \/ s[2] # "#")

\* C2: whatever str the completion client returns as content, hashtag extraction
\* returns a string and does not raise.
ParseNeverRaises == (HashtagsCalled /\ ContentIsStr) => h_outcome = "returned"

\* C3 (as claimed): a schema object with a list of N elements yields exactly
\* min(N, 10) tokens, the i-th token being the normal form of the i-th element.
EveryElementBecomesAToken ==
    (HashtagsCalled /\ WholeIsSchema) =>
        /\ h_outcome = "returned"
        /\ Len(Tokens(hashtags)) = Min(Len(SchemaList), MaxHashtags)
        /\ \A i \in 1..Min(Len(Tokens(hashtags)), Len(SchemaList)) :
              Core(Tokens(hashtags)[i]) = Core(Strip(PyStr(SchemaList[i])))

\* C3 (amended): a schema object with a list of which M elements are not blank
\* yields exactly min(M, 10) tokens; the i-th token is the i-th non-blank
\* element, trimmed, without spaces and with a leading "#", duplicates kept.
NonBlankElementsBecomeTokens ==
    (HashtagsCalled /\ WholeIsSchema) =>
        /\ h_outcome = "returned"
        /\ Len(Tokens(hashtags)) = Min(Len(NonBlank(SchemaList)), MaxHashtags)
        /\ \A i \in 1..Len(Tokens(hashtags)) :
              /\ StartsWith(Tokens(hashtags)[i], "#")
              /\ Core(Tokens(hashtags)[i]) = Core(Strip(PyStr(NonBlank(SchemaList)[i])))

\* more than ten non-blank elements, a blank one among the list, a repeated tag
TruncatedListReturned ==
    /\ h_outcome = "returned"
    /\ WholeIsSchema
    /\ Len(NonBlank(SchemaList)) > MaxHashtags
    /\ Len(NonBlank(SchemaList)) < Len(SchemaList)
    /\ Len(Tokens(hashtags)) = MaxHashtags
    /\ Tokens(hashtags)[2] = Tokens(hashtags)[5]

\* C4: every token made from a tag element starts with exactly one "#" and
\* contains no whitespace character.
TokensHaveOneHashNoWhitespace ==
    (h_outcome = "returned" /\ WholeIsSchema) =>
        \A i \in 1..Len(Tokens(hashtags)) :
            /\ ExactlyOneHash(Tokens(hashtags)[i])
            /\ ~HasWhitespace(Tokens(hashtags)[i])

\* neither the whole text nor the first-"{"-to-last-"}" substring parses
NothingParses ==
    LET start == Find(ContentText, "{")
        end == RFind(ContentText, "}")
    IN  /\ ContentIsStr
        /\ ContentText # <<>>
        /\ ~JsonLoads(ContentText).ok
        /\ \/ start = -1
           \/ end = -1
           \/ end <= start
           \/ ~JsonLoads(SubSeq(ContentText, start + 1, end + 1)).ok

\* C5 (as claimed): when nothing parses the result is the raw completion text,
\* leading and trailing whitespace included.
FallbackIsRawText ==
    (HashtagsCalled /\ NothingParses) =>
        (h_outcome = "returned" /\ hashtags = llm_result.content.s)

\* C5 (amended): when nothing parses the result is the raw completion text
\* with its leading and trailing whitespace removed, otherwise unmodified.
FallbackIsTrimmedText ==
    (HashtagsCalled /\ NothingParses) =>
        (h_outcome = "returned" /\ hashtags = Strip(llm_result.content.s))

\* a fallback on a text that had whitespace around it and a brace pair inside
FallbackOnPaddedText ==
    /\ h_outcome = "returned"
    /\ NothingParses
    /\ Find(ContentText, "{") # -1
    /\ RFind(ContentText, "}") > Find(ContentText, "{")
    /\ llm_result.content.s # ContentText
    /\ hashtags = ContentText

\* C6: whenever the completion client returns, generate_hashtags returns
\* metadata whose llm entry holds the client's values unchanged.
MetadataAlwaysReturned ==
    (HashtagsCalled /\ ~llm_result.raised) =>
        /\ h_outcome = "returned"
        /\ h_metadata.present
        /\ h_metadata.llm = Metadata(llm_result.fields)
        /\ \A f \in {"model", "attempts", "usage", "length", "estimated_cost_usd", "error"} :
              llm_result.fields[f] # Absent => h_metadata.llm[f] = llm_result.fields[f]

\* the text does not parse, its first-"{"-to-last-"}" substring is the schema object
RecoverableSchema ==
    LET start == Find(ContentText, "{")
        end == RFind(ContentText, "}")
    IN  /\ ContentIsStr
        /\ ~JsonLoads(ContentText).ok
        /\ start # -1 /\ end # -1 /\ start < end
        /\ JsonLoads(SubSeq(ContentText, start + 1, end + 1)).ok
        /\ IsSchemaObject(JsonLoads(SubSeq(ContentText, start + 1, end + 1)).val)

EmbeddedObject ==
    SubSeq(ContentText, Find(ContentText, "{") + 1, RFind(ContentText, "}") + 1)

ExampleText ==
    <<"S", "u", "r", "!", " ", "{", "\"">> \o HashtagsKey
        \o <<"\"", ":", "[", "\"", "A", "I", "\"", ",", "\"", "#", "S", "M", "E",
             "\"", "]", "}", " ", "T", "h", "a", "n", "k", "s">>

\* C9: when only the first-"{"-to-last-"}" substring parses as the schema
\* object, the result is what that object alone would give as the completion
\* text; prose around {"hashtags":["AI","#SME"]} gives "#AI #SME".
RecoveryEqualsObjectAlone ==
    (HashtagsCalled /\ RecoverableSchema) =>
        /\ h_outcome = "returned"
        /\ ~ParseHashtags([none |-> FALSE, s |-> EmbeddedObject]).raised
        /\ hashtags = ParseHashtags([none |-> FALSE, s |-> EmbeddedObject]).value
        /\ llm_result.content.s = ExampleText =>
              hashtags = <<"#", "A", "I", " ", "#", "S", "M", "E">>

\* the example of the claim, recovered
ExampleRecovered ==
    /\ h_outcome = "returned"
    /\ RecoverableSchema
    /\ llm_result.content.s = ExampleText
    /\ hashtags = <<"#", "A", "I", " ", "#", "S", "M", "E">>

---------------------------------------------------------------------------
(* Properties of the image pipeline, checked under SpecImage *)

ImageCalled == img.outcome \in {"returned", "raised"}

\* C1: generate_post_image never raises; a failure is (None, metadata with error).
ImageNeverRaises ==
    /\ img.outcome # "raised"
    /\ (img.outcome = "returned" /\ img.path = 0) => img.meta.error # Absent

NoCredential == Falsy(config.api_key) /\ Falsy(env_api_key)

\* C7: with no non-empty API key in the config or the environment the call
\* returns (None, {"error": non-empty text}); the image client is not
\* constructed or invoked and no file is written.
NoCredentialNoSideEffect ==
    (ImageCalled /\ NoCredential) =>
        /\ img.outcome = "returned"
        /\ img.path = 0
        /\ img.meta.error \notin {Absent, ""}
        /\ img.meta = [NoMeta EXCEPT !.error = img.meta.error]
        /\ ~img.constructed
        /\ img.client = NotReached
        /\ img.fs = "not_reached"
        /\ files = <<>>

\* empty strings as keys, and a timeout float() rejects
EmptyCredentialRejected ==
    /\ img.outcome = "returned"
    /\ config.api_key = ""
    /\ env_api_key = ""
    /\ Float(config.timeout) # ""
    /\ img.meta.error = "OPENAI_API_KEY not set"
    /\ ~img.constructed

\* the client returned a non-empty valid base64 payload and the write succeeded
ImageSucceeds ==
    /\ ImageCalled
    /\ img.client.kind = "item"
    /\ img.client.b64 # <<>>
    /\ B64Decode(img.client.b64).ok
    /\ img.fs = "ok"

\* C8: on a successful image call the returned path names a file that exists,
\* is closed, holds exactly the decoded payload, and metadata's path is that path.
SuccessLeavesClosedFile ==
    ImageSucceeds =>
        /\ img.outcome = "returned"
        /\ img.path # 0
        /\ img.meta.path = img.path
        /\ Cardinality({i \in 1..Len(files) : files[i].path = img.path}) = 1
        /\ \A i \in 1..Len(files) :
              files[i].path = img.path =>
                  /\ files[i].closed
                  /\ files[i].bytes = B64Decode(img.client.b64).bytes

\* a second successful call: both files are there, the last holds three bytes
SecondImageWritten ==
    /\ ImageSucceeds
    /\ Len(files) = 2
    /\ files[2].path = img.path
    /\ files[2].bytes = <<65, 4, 16>>
    /\ files[1].path # img.path

\* C10: a file exists only for a successful call: a call that returns None
\* leaves no file of its own, and files created = successful calls.
FilesOnlyOnSuccess ==
    /\ Len(files) = successes
    /\ (img.outcome = "returned" /\ img.path = 0) =>
          \A i \in 1..Len(files) : files[i].path # calls

=============================================================================
